---- MODULE Spec2Model ----
(***************************************************************************)
(* A model of src/VAE.py: the Encoder / Decoder / Noiser modules, the VAE  *)
(* orchestrator (reconstruct, generate, loss, train, diff_priv_train,      *)
(* get_privacy_spent, save, load).                                         *)
(*                                                                         *)
(* Numbers.  Tensors of reals are modelled by integers.  Every parameter   *)
(* tensor (encoder.net, decoder.net, noiser weight, noiser bias) is one    *)
(* integer of ParamVals; the two feed-forward networks are affine          *)
(* integer maps of their input and their parameter; exp is Exp2.  What is  *)
(* kept exactly is the structure of the code: slices and their offsets,    *)
(* which tensor feeds which call, the reductions (sum or mean), the order  *)
(* of calls, the draws from the random generator, and which parameters an  *)
(* optimizer step may write.                                               *)
(*                                                                         *)
(* The random generator is a state `rng`; each draw reads one state of the *)
(* stream and advances it.                                                 *)
(***************************************************************************)
EXTENDS Integers, Sequences, FiniteSets, TLC

VARIABLES
    num_categories,   \* Decoder.num_categories: the categorical group widths
    num_continuous,   \* Decoder.num_continuous
    params,           \* instance -> [enc, dec, nw, nb]: the state_dict
    grads,            \* the parameters whose .grad has been populated
    rng,              \* state of torch's random generator
    privacy_engine,   \* self.privacy_engine: 0 = no such attribute, else an engine id
    optEngine,        \* optimizer.privacy_engine: the engine hooked into optimizer.step
    engines,          \* engine id -> [cfg, steps]: every PrivacyEngine constructed
    files,            \* path -> the saved state_dict, or NoFile
    saved,            \* path -> parameters of the saving model when it saved
    pc,               \* position inside train / diff_priv_train, "idle" outside
    call,             \* arguments of the running (or last) training call
    epoch, batch_idx, \* loop counters of the running call
    train_loss,       \* the epoch total, a rational <<num, den>>
    loss,             \* the loss of the current batch, a rational <<num, den>>
    trace,            \* events of the running (or last) training call
    optSteps,         \* optimizer steps taken in the running (or last) call
    calls,            \* number of training calls still to be made
    ret,              \* what the last operation returned
    recon,            \* the last reconstruct: [set, X, p, r, value]
    spent             \* the last epsilon get_privacy_spent returned, None before

vars == << num_categories, num_continuous, params, grads, rng, privacy_engine,
           optEngine, engines, files, saved, pc, call, epoch, batch_idx,
           train_loss, loss, trace, optSteps, calls, ret, recon, spent >>

----------------------------------------------------------------------------
(* Bounds of the model *)

MaxGroups == 2     \* categorical groups in a layout
MaxWidth == 2      \* categories in a group
MaxCont == 1       \* continuous features
MaxN == 2          \* rows asked of generate
MaxBatch == 2      \* rows in a batch given to loss
RngMod == 4        \* states of the random generator
MaxEpochs == 2     \* n_epochs of a training call
MaxBatches == 2    \* batches the dataloader yields
MaxCalls == 1      \* training calls on the instance that saves
MaxDpCalls == 2    \* training calls where the privacy engine is constructed twice
MaxFiles == 1      \* paths save and load may name

(* None, and the result of a call that raised *)
None == -1

----------------------------------------------------------------------------
(* Sequences as tensors *)

\* the sum of the entries
RECURSIVE SumTo(_, _)
SumTo(s, n) == IF n = 0 THEN 0 ELSE s[n] + SumTo(s, n - 1)
SumSeq(s) == SumTo(s, Len(s))

MaxOf(s) == CHOOSE m \in {s[k] : k \in DOMAIN s} : \A k \in DOMAIN s : s[k] <= m

Clamp(i, len) == IF i < 0 THEN 0 ELSE IF i > len THEN len ELSE i

\* row[start:stop], 0-based, stop exclusive, as Python slices a dimension
PySlice(row, start, stop) ==
    LET a == Clamp(start, Len(row))
        b == Clamp(stop, Len(row))
    IN  IF b <= a THEN << >> ELSE [k \in 1..(b - a) |-> row[a + k]]

\* the start of row[-n:] : -n counts from the end, and -0 is 0
TailStart(len, n) == IF n = 0 THEN 0 ELSE Clamp(len - n, len)

\* row[-n:]
TailSlice(row, n) == PySlice(row, TailStart(Len(row), n), Len(row))

\* i after the groups before v: the loop variable of generate and loss
Offset(cats, v) == SumSeq(SubSeq(cats, 1, v - 1))

Width(cats, nc) == nc + SumSeq(cats)

OneHot(w, k) == [j \in 1..w |-> IF j = k THEN 1 ELSE 0]

\* torch.max(row, 1)[1]: the index (0-based) of the first maximal entry
ArgMax(row) ==
    (CHOOSE k \in DOMAIN row :
        /\ \A j \in DOMAIN row : row[j] <= row[k]
        /\ \A j \in DOMAIN row : j < k => row[j] < row[k]) - 1

Exp2(v) == IF v <= 0 THEN 1 ELSE 2 ^ v

----------------------------------------------------------------------------
(* The random generator *)

RngNext(r) == (r + 1) % RngMod

RECURSIVE RngAt(_, _)
RngAt(r, k) == IF k = 0 THEN r ELSE RngAt(RngNext(r), k - 1)

\* a standard normal draw read off generator state r
Randn(r) == (r % 3) - 1

\* a categorical draw over w classes read off generator state r (1-based)
Categorical(r, w) == (r % w) + 1

----------------------------------------------------------------------------
(* Encoder, Decoder, Noiser *)

latent_dim == 1

ParamNames == {"enc", "dec", "nw", "nb"}

\* the values a parameter tensor is told apart by
ParamVals == {0, 1}

\* Encoder.forward: outs = net(x); mu_z = outs[:latent_dim]; logsigma_z = outs[latent_dim:]
EncoderForward(pe, x) ==
    LET outs == [k \in 1..(2 * latent_dim) |-> pe * SumSeq(x) + k - 1]
    IN  [mu_z |-> PySlice(outs, 0, latent_dim),
         logsigma_z |-> PySlice(outs, latent_dim, Len(outs))]

\* Decoder.forward: net(z), of width num_continuous + sum(num_categories)
DecoderForward(pd, z, cats, nc) ==
    [j \in 1..Width(cats, nc) |-> pd * SumSeq(z) + j - 1]

\* Noiser.forward: the linear transform, weight * X + bias
NoiserForward(nw, nb, X) == [j \in 1..Len(X) |-> nw * SumSeq(X) + nb]

\* Noiser.__init__: zeros_ on weight and bias
NoiserInit == [nw |-> 0, nb |-> 0]

\* requires_grad of each parameter: only the Noiser weight is frozen
RequiresGradAll(name) == TRUE
RequiresGrad(name) == name /= "nw"

----------------------------------------------------------------------------
(* VAE.generate *)

\* the position in the call's stream of draws of: the latent draw of row i,
\* the categorical draw of group v for row i, the noise of feature j of row i
LatentDraw(i) == (i - 1) * latent_dim
GroupDraw(N, v, i) == N * latent_dim + (v - 1) * N + (i - 1)
ContDraw(N, G, w, i, j) == N * latent_dim + G * N + (i - 1) * w + (j - 1)

\* x_gen = self.decoder(z_samples), row i
GenDecoded(p, N, r, cats, nc, i) ==
    DecoderForward(p.dec, << Randn(RngAt(r, LatentDraw(i))) >>, cats, nc)

\* the group whose slice [i, i + num_categories[v]) holds 0-based position q, or 0
GroupAt(cats, q) ==
    LET hit == {v \in DOMAIN cats : Offset(cats, v) <= q /\ q < Offset(cats, v) + cats[v]}
    IN  IF hit = {} THEN 0 ELSE CHOOSE v \in hit : TRUE

\* x_gen_ after the loop over the groups, row i: ones, with each group's slice
\* overwritten by a one-hot draw
GenCategorical(N, r, cats, nc, i) ==
    [q1 \in 1..Width(cats, nc) |->
        LET v == GroupAt(cats, q1 - 1)
        IN  IF v = 0 THEN 1
            ELSE OneHot(cats[v], Categorical(RngAt(r, GroupDraw(N, v, i)), cats[v]))
                       [q1 - Offset(cats, v)]]

\* The first group whose draw fails, or 0.  A OneHotCategorical over zero classes is
\* the library's business: emptyOk tells whether it yields the empty sample or raises.
GenFailingGroup(cats, emptyOk) ==
    LET bad == {v \in DOMAIN cats : cats[v] = 0 /\ ~emptyOk}
    IN  IF bad = {} THEN 0 ELSE CHOOSE v \in bad : \A u \in bad : v <= u

\* self.noiser(x_gen[:, -num_continuous:]) is a Linear of num_continuous inputs:
\* it raises on a slice of any other width
NoiserAccepts(cats, nc) ==
    LET W == Width(cats, nc) IN W - TailStart(W, nc) = nc

\* the row i that generate returns
GenRow(p, N, r, cats, nc, i) ==
    LET W == Width(cats, nc)
        x_gen == GenDecoded(p, N, r, cats, nc, i)
        x_cat == GenCategorical(N, r, cats, nc, i)
        start == TailStart(W, nc)
        tail == TailSlice(x_gen, nc)
        logsigma == NoiserForward(p.nw, p.nb, tail)
    IN  [q1 \in 1..W |->
            IF q1 <= start THEN x_cat[q1]
            ELSE x_gen[q1] + Exp2(logsigma[q1 - start])
                   * Randn(RngAt(r, ContDraw(N, Len(cats), W - start, i, q1 - start)))]

\* generate(N) with the generator in state r: what it returns and the draws it took
Generate(p, N, r, cats, nc, emptyOk) ==
    LET G == Len(cats)
        bad == GenFailingGroup(cats, emptyOk)
    IN  IF bad /= 0
        THEN [status |-> "raise", rows |-> << >>, draws |-> GroupDraw(N, bad, 1)]
        ELSE IF ~NoiserAccepts(cats, nc)
        THEN [status |-> "raise", rows |-> << >>, draws |-> GroupDraw(N, G + 1, 1)]
        ELSE [status |-> "ok",
              rows |-> [i \in 1..N |-> GenRow(p, N, r, cats, nc, i)],
              draws |-> ContDraw(N, G, nc, N + 1, 1)]

----------------------------------------------------------------------------
(* VAE.loss *)

\* Rationals <<num, den>>, den > 0: a mean over the batch is not an integer
Rat(n) == << n, 1 >>
RatAdd(a, b) ==
    IF a[2] = b[2] THEN << a[1] + b[1], a[2] >>
    ELSE << a[1] * b[2] + b[1] * a[2], a[2] * b[2] >>
RatNeg(a) == << 0 - a[1], a[2] >>
RatEq(a, b) == a[1] * b[2] = b[1] * a[2]

\* kl_divergence(Normal(mu, exp(logsigma)), Normal(0, 1)) of one latent dimension
KLTerm(mu, logsigma) == Exp2(logsigma) * Exp2(logsigma) + mu * mu - 1 - 2 * logsigma

\* the cross-entropy of one row: logsumexp(logits) - logits[target], target 0-based
RowCrossEntropy(logits, target) ==
    (MaxOf(logits) + Len(logits) - 1) - logits[target + 1]

\* Normal(loc, exp(logsigma)).log_prob(x) of one entry
LogProb(x, loc, logsigma) ==
    0 - (((x - loc) * (x - loc)) \div (Exp2(logsigma) * Exp2(logsigma))) - logsigma

\* x_recon = self.decoder(mu_z + s * exp(logsigma_z)), row i of batch X
LossDecoded(p, X, r, cats, nc, i) ==
    LET e == EncoderForward(p.enc, X[i])
        s == [k \in 1..latent_dim |-> Randn(RngAt(r, (i - 1) * latent_dim + k - 1))]
        z_samples == [k \in 1..latent_dim |->
                         e.mu_z[k] + s[k] * Exp2(e.logsigma_z[k])]
    IN  DecoderForward(p.dec, z_samples, cats, nc)

\* torch.sum(kl_divergence(q, p)): over the latent dimensions and the rows
EncoderLoss(p, X) ==
    SumSeq([i \in 1..Len(X) |->
        LET e == EncoderForward(p.enc, X[i])
        IN  SumSeq([k \in 1..latent_dim |-> KLTerm(e.mu_z[k], e.logsigma_z[k])])])

\* the sum over the rows of the batch of group v's cross-entropy
GroupCrossEntropySum(p, X, r, cats, nc, v) ==
    SumSeq([i \in 1..Len(X) |->
        RowCrossEntropy(
            PySlice(LossDecoded(p, X, r, cats, nc, i),
                    Offset(cats, v), Offset(cats, v) + cats[v]),
            ArgMax(PySlice(X[i], Offset(cats, v), Offset(cats, v) + cats[v])))])

\* What torch.nn.functional.cross_entropy(input, target) divides the sum over the
\* rows by: its reduction is the default one, the mean; the .sum() that follows is
\* the sum of that one scalar
CrossEntropyDenominator(X) == Len(X)

\* categoric_loglik after the loop over the groups: minus the cross-entropy of
\* every group; 0 when sum(num_categories) = 0
CategoricLoglik(p, X, r, cats, nc) ==
    IF SumSeq(cats) /= 0
    THEN << 0 - SumSeq([v \in 1..Len(cats) |-> GroupCrossEntropySum(p, X, r, cats, nc, v)]),
            CrossEntropyDenominator(X) >>
    ELSE Rat(0)

\* gauss_loglik: the log-density summed over rows and continuous features;
\* 0 when num_continuous = 0
GaussLoglik(p, X, r, cats, nc) ==
    IF nc /= 0
    THEN SumSeq([i \in 1..Len(X) |->
            LET loc == TailSlice(LossDecoded(p, X, r, cats, nc, i), nc)
                logsigma == NoiserForward(p.nw, p.nb, loc)
                x == TailSlice(X[i], nc)
            IN  SumSeq([j \in 1..Len(loc) |-> LogProb(x[j], loc[j], logsigma[j])])])
    ELSE 0

\* torch.max over a slice of no entries raises: a group of width 0 among others
LossRaises(cats) == SumSeq(cats) /= 0 /\ \E v \in DOMAIN cats : cats[v] = 0

\* encoder_loss + reconstruct_loss, reconstruct_loss = -(categoric_loglik + gauss_loglik)
LossValue(encoder_loss, categoric_loglik, gauss_loglik) ==
    RatAdd(Rat(encoder_loss), RatNeg(RatAdd(categoric_loglik, Rat(gauss_loglik))))

\* loss(X) with the generator in state r
Loss(p, X, r, cats, nc) ==
    IF LossRaises(cats)
    THEN [status |-> "raise", encoder_loss |-> 0, categoric_loglik |-> Rat(0),
          gauss_loglik |-> 0, draws |-> Len(X) * latent_dim]
    ELSE [status |-> "ok", encoder_loss |-> EncoderLoss(p, X),
          categoric_loglik |-> CategoricLoglik(p, X, r, cats, nc),
          gauss_loglik |-> GaussLoglik(p, X, r, cats, nc),
          draws |-> Len(X) * latent_dim]

----------------------------------------------------------------------------
(* VAE.reconstruct *)

\* the latent vector reconstruct decodes: the posterior mean
ReconLatentSampled(p, x, r) ==
    LET e == EncoderForward(p.enc, x)
    IN  [k \in 1..latent_dim |-> e.mu_z[k] + Randn(RngAt(r, k - 1)) * Exp2(e.logsigma_z[k])]
ReconLatent(p, x, r) == EncoderForward(p.enc, x).mu_z

\* reconstruct(X): self.decoder(mu_z), row by row
Reconstruct(p, X, r, cats, nc) ==
    [i \in 1..Len(X) |-> DecoderForward(p.dec, ReconLatent(p, X[i], r), cats, nc)]

----------------------------------------------------------------------------
(* Feature layouts and the rows that fit them *)

RECURSIVE SeqsUpTo(_, _)
SeqsUpTo(S, n) ==
    IF n = 0 THEN {<< >>}
    ELSE LET shorter == SeqsUpTo(S, n - 1)
         IN  shorter \cup {Append(q, x) : q \in {t \in shorter : Len(t) = n - 1}, x \in S}

Layouts ==
    {[cats |-> c, nc |-> n] : c \in SeqsUpTo(0..MaxWidth, MaxGroups), n \in 0..MaxCont}

ContVals == {0, 1}

\* the rows of a layout: a one-hot vector per group, then the continuous values
RECURSIVE RowsFor(_, _)
RowsFor(cats, nc) ==
    IF cats = << >> THEN {q \in SeqsUpTo(ContVals, nc) : Len(q) = nc}
    ELSE LET heads == IF Head(cats) = 0 THEN {<< >>}
                      ELSE {OneHot(Head(cats), k) : k \in 1..Head(cats)}
         IN  {h \o t : h \in heads, t \in RowsFor(Tail(cats), nc)}

BatchesFor(cats, nc, maxRows) ==
    {X \in SeqsUpTo(RowsFor(cats, nc), maxRows) : Len(X) >= 1}

----------------------------------------------------------------------------
(* Construction *)

\* Encoder / Decoder weights after nn.Linear's random initialisation, and the
\* Noiser's zeros: the parameters of a freshly constructed VAE
FreshParams ==
    {[enc |-> e, dec |-> d, nw |-> NoiserInit.nw, nb |-> NoiserInit.nb] :
        e \in ParamVals, d \in ParamVals}

NoFile == [absent |-> TRUE]
NoCall == [op |-> "none"]
NoRet == [op |-> "none", status |-> "ok"]
NoRecon == [set |-> FALSE]

\* the state after constructing the VAE objects `insts` over one of `layouts`,
\* with the paths `paths` not yet written, the generator seeded from `seeds`, and
\* `budget` training calls to come
Constructed(layouts, insts, paths, seeds, budget) ==
    /\ \E l \in layouts : num_categories = l.cats /\ num_continuous = l.nc
    /\ params \in [insts -> FreshParams]
    /\ grads = {}
    /\ rng \in seeds
    /\ privacy_engine = [i \in insts |-> 0]
    /\ optEngine = [i \in insts |-> 0]
    /\ engines = << >>
    /\ files = [f \in paths |-> NoFile]
    /\ saved = [f \in paths |-> NoFile]
    /\ pc = "idle"
    /\ call = NoCall
    /\ epoch = 0
    /\ batch_idx = 0
    /\ train_loss = Rat(0)
    /\ loss = Rat(0)
    /\ trace = << >>
    /\ optSteps = 0
    /\ calls = budget
    /\ ret = NoRet
    /\ recon = NoRecon
    /\ spent = None

Insts == DOMAIN params
Paths == DOMAIN files

\* the variables only a training call writes
loopVars == << pc, call, epoch, batch_idx, train_loss, loss, trace, optSteps, calls >>
engineVars == << privacy_engine, optEngine, engines >>
layoutVars == << num_categories, num_continuous >>

----------------------------------------------------------------------------
(* generate, loss, reconstruct called on an idle model *)

GenerateCall(self, N, emptyOk) ==
    /\ pc = "idle"
    /\ \E g \in {Generate(params[self], N, rng, num_categories, num_continuous, emptyOk)} :
           /\ ret' = [op |-> "generate", status |-> g.status, N |-> N, value |-> g.rows]
           /\ rng' = RngAt(rng, g.draws)
    /\ UNCHANGED << layoutVars, params, grads, engineVars, files, saved, loopVars,
                    recon, spent >>

LossCall(self, X) ==
    /\ pc = "idle"
    /\ \E l \in {Loss(params[self], X, rng, num_categories, num_continuous)} :
           /\ ret' = [op |-> "loss", status |-> l.status, X |-> X, self |-> self,
                      p |-> params[self], r |-> rng,
                      encoder_loss |-> l.encoder_loss,
                      categoric_loglik |-> l.categoric_loglik,
                      gauss_loglik |-> l.gauss_loglik,
                      value |-> LossValue(l.encoder_loss, l.categoric_loglik,
                                          l.gauss_loglik)]
           /\ rng' = RngAt(rng, l.draws)
    /\ UNCHANGED << layoutVars, params, grads, engineVars, files, saved, loopVars,
                    recon, spent >>

ReconstructCall(self, X) ==
    /\ pc = "idle"
    /\ \E x_recon \in {Reconstruct(params[self], X, rng, num_categories, num_continuous)} :
           /\ ret' = [op |-> "reconstruct", status |-> "ok", X |-> X, self |-> self,
                      p |-> params, r |-> rng, value |-> x_recon, before |-> recon]
           /\ recon' = [set |-> TRUE, X |-> X, p |-> params[self], r |-> rng,
                        value |-> x_recon]
    /\ UNCHANGED << layoutVars, params, grads, rng, engineVars, files, saved,
                    loopVars, spent >>

----------------------------------------------------------------------------
(* save, load *)

\* self.state_dict(): every parameter of Encoder, Decoder and Noiser under its name
StateDict(p) ==
    [encoder_net |-> p.enc, decoder_net |-> p.dec,
     noiser_output_logsigma_fn_weight |-> p.nw,
     noiser_output_logsigma_fn_bias |-> p.nb]

\* self.load_state_dict(blob): every parameter takes the value stored under its name
LoadStateDictNetsOnly(p, blob) ==
    [enc |-> blob.encoder_net, dec |-> blob.decoder_net, nw |-> p.nw, nb |-> p.nb]
LoadStateDict(p, blob) ==
    [enc |-> blob.encoder_net, dec |-> blob.decoder_net,
     nw |-> blob.noiser_output_logsigma_fn_weight,
     nb |-> blob.noiser_output_logsigma_fn_bias]

Save(self, filename) ==
    /\ pc = "idle"
    /\ files' = [files EXCEPT ![filename] = StateDict(params[self])]
    /\ saved' = [saved EXCEPT ![filename] = params[self]]
    /\ ret' = [op |-> "save", status |-> "ok", self |-> self, filename |-> filename,
               p |-> params]
    /\ UNCHANGED << layoutVars, params, grads, rng, engineVars, loopVars, recon, spent >>

\* torch.load raises when nothing was saved under the name
Load(self, filename) ==
    /\ pc = "idle"
    /\ IF files[filename] = NoFile
       THEN /\ ret' = [op |-> "load", status |-> "raise", self |-> self,
                       filename |-> filename]
            /\ UNCHANGED params
       ELSE /\ params' = [params EXCEPT
                             ![self] = LoadStateDict(params[self], files[filename])]
            /\ ret' = [op |-> "load", status |-> "ok", self |-> self,
                       filename |-> filename]
    /\ UNCHANGED << layoutVars, grads, rng, engineVars, files, saved, loopVars,
                    recon, spent >>

----------------------------------------------------------------------------
(* The privacy accountant *)

\* alphas: [1 + x / 10.0 for x in range(1, 100)] + list(range(12, 64)), in tenths
Alphas == [x \in 1..99 |-> 10 + x] \o [k \in 1..52 |-> 10 * (11 + k)]

\* the branch diff_priv_train takes: `if noise_scale is not None`
NoiseScaleTruthy(noise_scale) == noise_scale /= None /\ noise_scale /= 0
NoiseScaleGiven(noise_scale) == noise_scale /= None

\* the keyword arguments PrivacyEngine is constructed with
EngineConfig(c) ==
    IF NoiseScaleGiven(c.noise_scale)
    THEN [sample_rate |-> c.sample_rate, alphas |-> Alphas,
          noise_multiplier |-> c.noise_scale, max_grad_norm |-> c.C]
    ELSE [sample_rate |-> c.sample_rate, alphas |-> Alphas,
          target_epsilon |-> c.target_eps, target_delta |-> c.target_delta,
          epochs |-> c.n_epochs, max_grad_norm |-> c.C]

\* privacy_engine.get_privacy_spent(delta): the accountant's epsilon grows with
\* the optimizer steps it has counted
Epsilon(engine, delta) == engine.steps

Deltas == {5}

\* what get_privacy_spent does without a privacy_engine attribute: it prints the
\* message and falls off the end of the function, returning None
NoEngineResultSilentZero == [value |-> 0, printed |-> FALSE]
NoEngineResult == [value |-> None, printed |-> TRUE]

GetPrivacySpent(self, delta) ==
    /\ pc = "idle"
    /\ \E res \in {IF privacy_engine[self] /= 0
                    THEN [value |-> Epsilon(engines[privacy_engine[self]], delta),
                          printed |-> FALSE]
                    ELSE NoEngineResult} :
           /\ ret' = [op |-> "get_privacy_spent", status |-> "ok", self |-> self,
                      delta |-> delta, value |-> res.value, printed |-> res.printed,
                      before |-> spent, p |-> params, r |-> rng,
                      e |-> engines, hooked |-> optEngine]
           /\ spent' = IF res.value /= None THEN res.value ELSE spent
    /\ UNCHANGED << layoutVars, params, grads, rng, engineVars, files, saved,
                    loopVars, recon >>

----------------------------------------------------------------------------
(* train and diff_priv_train *)

\* the batch the dataloader yields at batch_idx b: one row of the layout
TrainBatch(cats, nc, b) == << CHOOSE row \in RowsFor(cats, nc) : TRUE >>

\* the parameters loss.backward() leaves a gradient on: those that require one
\* and that the loss is computed from
OnGraph(name, cats, nc) ==
    CASE name = "enc" -> TRUE
      [] name = "dec" -> SumSeq(cats) /= 0 \/ nc /= 0
      [] OTHER -> nc /= 0
BackwardGrads(cats, nc) ==
    {name \in ParamNames : RequiresGrad(name) /\ OnGraph(name, cats, nc)}

\* what optimizer.step() may leave in the parameters: it writes the parameters
\* that hold a gradient (the update rule, and under the privacy engine the
\* clipping and the noise, are the library's) and no other
OptimizerUpdates(p, g) ==
    LET new(name) == IF name \in g THEN ParamVals ELSE {p[name]}
    IN  {[enc |-> e, dec |-> d, nw |-> w, nb |-> b] :
            e \in new("enc"), d \in new("dec"), w \in new("nw"), b \in new("nb")}

\* the statement that follows each statement of the loop body
AfterSkippingBackward(pos) ==
    CASE pos = "zero_grad" -> "loss"
      [] pos = "loss" -> "step"
      [] pos = "backward" -> "step"
      [] pos = "step" -> "accumulate"
After(pos) ==
    CASE pos = "zero_grad" -> "loss"
      [] pos = "loss" -> "backward"
      [] pos = "backward" -> "step"
      [] pos = "step" -> "accumulate"

TrainCall(self, n_epochs, nbatches, logging_freq) ==
    /\ pc = "idle"
    /\ calls > 0
    /\ calls' = calls - 1
    /\ call' = [op |-> "train", self |-> self, n_epochs |-> n_epochs,
                nbatches |-> nbatches, logging_freq |-> logging_freq,
                noise_scale |-> None, C |-> None, target_eps |-> None,
                target_delta |-> None, sample_rate |-> None]
    /\ pc' = "epoch"
    /\ epoch' = 0
    /\ batch_idx' = 0
    /\ train_loss' = Rat(0)
    /\ loss' = Rat(0)
    /\ trace' = << >>
    /\ optSteps' = 0
    /\ ret' = [op |-> "train", status |-> "running"]
    /\ UNCHANGED << layoutVars, params, grads, rng, engineVars, files, saved,
                    recon, spent >>

DiffPrivTrainCall(self, n_epochs, nbatches, logging_freq, noise_scale, C, target_eps, target_delta, sample_rate) ==
    /\ pc = "idle"
    /\ calls > 0
    /\ calls' = calls - 1
    /\ call' = [op |-> "diff_priv_train", self |-> self, n_epochs |-> n_epochs,
                nbatches |-> nbatches, logging_freq |-> logging_freq,
                noise_scale |-> noise_scale, C |-> C, target_eps |-> target_eps,
                target_delta |-> target_delta, sample_rate |-> sample_rate]
    /\ pc' = "construct"
    /\ epoch' = 0
    /\ batch_idx' = 0
    /\ train_loss' = Rat(0)
    /\ loss' = Rat(0)
    /\ trace' = << >>
    /\ optSteps' = 0
    /\ ret' = [op |-> "diff_priv_train", status |-> "running"]
    /\ UNCHANGED << layoutVars, params, grads, rng, engineVars, files, saved,
                    recon, spent >>

\* self.privacy_engine = PrivacyEngine(self, ...).  On a model whose optimizer
\* already carries an engine the library may refuse in the constructor (raises is
\* TRUE: the exception leaves the call before the assignment) or only in attach.
Construct(raises) ==
    /\ pc = "construct"
    /\ raises => optEngine[call.self] /= 0
    /\ IF raises
       THEN /\ pc' = "idle"
            /\ ret' = [op |-> "diff_priv_train", status |-> "raise", at |-> "construct"]
            /\ call' = NoCall
            /\ UNCHANGED engineVars
       ELSE /\ engines' = Append(engines, [cfg |-> EngineConfig(call), steps |-> 0])
            /\ privacy_engine' = [privacy_engine EXCEPT ![call.self] = Len(engines) + 1]
            /\ pc' = "attach"
            /\ UNCHANGED << optEngine, ret, call >>
    /\ UNCHANGED << layoutVars, params, grads, rng, files, saved, epoch,
                    batch_idx, train_loss, loss, trace, optSteps, calls, recon, spent >>

\* self.privacy_engine.attach(self.optimizer): an optimizer that carries another
\* engine makes attach raise, after self.privacy_engine was already rebound
Attach ==
    /\ pc = "attach"
    /\ IF optEngine[call.self] /= 0
       THEN /\ pc' = "idle"
            /\ ret' = [op |-> "diff_priv_train", status |-> "raise", at |-> "attach"]
            /\ call' = NoCall
            /\ UNCHANGED optEngine
       ELSE /\ optEngine' = [optEngine EXCEPT ![call.self] = privacy_engine[call.self]]
            /\ pc' = "epoch"
            /\ UNCHANGED << ret, call >>
    /\ UNCHANGED << layoutVars, params, grads, rng, privacy_engine, engines, files,
                    saved, epoch, batch_idx, train_loss, loss, trace, optSteps,
                    calls, recon, spent >>

\* for epoch in range(n_epochs): train_loss = 0.0, then the first batch, if any
EpochStart ==
    /\ pc = "epoch"
    /\ epoch < call.n_epochs
    /\ train_loss' = Rat(0)
    /\ batch_idx' = 0
    /\ trace' = Append(trace, "epoch")
    /\ pc' = IF call.nbatches > 0 THEN "zero_grad" ELSE "epoch_end"
    /\ UNCHANGED << layoutVars, params, grads, rng, engineVars, files, saved, call,
                    epoch, loss, optSteps, calls, ret, recon, spent >>

\* self.optimizer.zero_grad()
ZeroGrad ==
    /\ pc = "zero_grad"
    /\ grads' = {}
    /\ trace' = Append(trace, "zero_grad")
    /\ pc' = After("zero_grad")
    /\ UNCHANGED << layoutVars, params, rng, engineVars, files, saved, call, epoch,
                    batch_idx, train_loss, loss, optSteps, calls, ret, recon, spent >>

\* loss = self.loss(Y_subset.to(self.encoder.device)); an exception ends the call
ComputeLoss ==
    /\ pc = "loss"
    /\ \E l \in {Loss(params[call.self],
                      TrainBatch(num_categories, num_continuous, batch_idx),
                      rng, num_categories, num_continuous)} :
           /\ rng' = RngAt(rng, l.draws)
           /\ IF l.status = "raise"
              THEN /\ pc' = "idle"
                   /\ ret' = [op |-> call.op, status |-> "raise", at |-> "loss"]
                   /\ call' = NoCall
                   /\ epoch' = 0
                   /\ batch_idx' = 0
                   /\ train_loss' = Rat(0)
                   /\ trace' = << >>
                   /\ optSteps' = 0
                   /\ UNCHANGED loss
              ELSE /\ loss' = LossValue(l.encoder_loss, l.categoric_loglik,
                                        l.gauss_loglik)
                   /\ trace' = Append(trace, "loss")
                   /\ pc' = After("loss")
                   /\ UNCHANGED << ret, call, epoch, batch_idx, train_loss, optSteps >>
    /\ UNCHANGED << layoutVars, params, grads, engineVars, files, saved, calls,
                    recon, spent >>

\* loss.backward()
Backward ==
    /\ pc = "backward"
    /\ grads' = BackwardGrads(num_categories, num_continuous)
    /\ trace' = Append(trace, "backward")
    /\ pc' = After("backward")
    /\ UNCHANGED << layoutVars, params, rng, engineVars, files, saved, call, epoch,
                    batch_idx, train_loss, loss, optSteps, calls, ret, recon, spent >>

\* self.optimizer.step(): with an engine attached, the engine counts the step
OptimizerStep ==
    /\ pc = "step"
    /\ \E q \in OptimizerUpdates(params[call.self], grads) :
           params' = [params EXCEPT ![call.self] = q]
    /\ engines' = IF optEngine[call.self] /= 0
                  THEN [engines EXCEPT ![optEngine[call.self]].steps = @ + 1]
                  ELSE engines
    /\ optSteps' = optSteps + 1
    /\ trace' = Append(trace, "step")
    /\ pc' = After("step")
    /\ UNCHANGED << layoutVars, grads, rng, privacy_engine, optEngine, files, saved,
                    call, epoch, batch_idx, train_loss, loss, calls, ret, recon, spent >>

\* train_loss += loss.item(), then the next batch or the end of the epoch
Accumulate ==
    /\ pc = "accumulate"
    /\ train_loss' = RatAdd(train_loss, loss)
    /\ batch_idx' = batch_idx + 1
    /\ trace' = Append(trace, "accumulate")
    /\ pc' = IF batch_idx + 1 < call.nbatches THEN "zero_grad" ELSE "epoch_end"
    /\ UNCHANGED << layoutVars, params, grads, rng, engineVars, files, saved, call,
                    epoch, loss, optSteps, calls, ret, recon, spent >>

\* if epoch % logging_freq == 0: print(...)
EpochEnd ==
    /\ pc = "epoch_end"
    /\ trace' = IF epoch % call.logging_freq = 0 THEN Append(trace, "print") ELSE trace
    /\ epoch' = epoch + 1
    /\ pc' = "epoch"
    /\ UNCHANGED << layoutVars, params, grads, rng, engineVars, files, saved, call,
                    batch_idx, train_loss, loss, optSteps, calls, ret, recon, spent >>

\* the loop over the epochs is exhausted: the call returns and its locals die
Return ==
    /\ pc = "epoch"
    /\ epoch >= call.n_epochs
    /\ pc' = "idle"
    /\ ret' = [op |-> call.op, status |-> "ok"]
    /\ call' = NoCall
    /\ epoch' = 0
    /\ batch_idx' = 0
    /\ train_loss' = Rat(0)
    /\ loss' = Rat(0)
    /\ trace' = << >>
    /\ optSteps' = 0
    /\ UNCHANGED << layoutVars, params, grads, rng, engineVars, files, saved, calls,
                    recon, spent >>

----------------------------------------------------------------------------
(* Specifications *)

Epochs == 1..MaxEpochs
Batches == 1..MaxBatches
LoggingFreqs == {2}
NoiseScales == {None, 0, 1}
ClipBounds == {7}
TargetEps == {3}
TargetDeltas == {5}
SampleRates == {2}

\* layouts of one full-width categorical group, with and without continuous features
TrainLayouts == {l \in Layouts : Len(l.cats) = 1 /\ l.cats[1] = MaxWidth}

\* the batches the idle calls are given
CallBatches == BatchesFor(num_categories, num_continuous, 1)

\* the statements of diff_priv_train before its loop
DpStep ==
    \/ Construct(TRUE)
    \/ Construct(FALSE)
    \/ Attach

\* the statements of the loop of train and diff_priv_train
LoopStep ==
    \/ EpochStart
    \/ ZeroGrad
    \/ ComputeLoss
    \/ Backward
    \/ OptimizerStep
    \/ Accumulate
    \/ EpochEnd
    \/ Return

(* One training run of a freshly constructed VAE object, with or without the
   privacy engine. *)
Init == Constructed(TrainLayouts, {1}, {1}, {0}, 1)

Next ==
    \/ \E n \in Epochs, b \in Batches, f \in LoggingFreqs : TrainCall(1, n, b, f)
    \/ \E n \in Epochs, b \in Batches, f \in LoggingFreqs, ns \in NoiseScales,
          c \in ClipBounds, te \in TargetEps, td \in TargetDeltas, sr \in SampleRates :
          DiffPrivTrainCall(1, n, b, f, ns, c, te, td, sr)
    \/ Construct(FALSE)
    \/ Attach
    \/ LoopStep

Spec == Init /\ [][Next]_vars

(* The same object given several privacy-budgeted runs of one configuration. *)
InitBudget == Constructed(TrainLayouts, {1}, {1}, {0}, MaxDpCalls)

NextBudget ==
    \/ \E n \in Epochs, ns \in NoiseScales,
          c \in ClipBounds, te \in TargetEps, td \in TargetDeltas, sr \in SampleRates :
          DiffPrivTrainCall(1, n, 1, 1, ns, c, te, td, sr)
    \/ DpStep
    \/ LoopStep
    \/ \E d \in Deltas : GetPrivacySpent(1, d)

SpecBudget == InitBudget /\ [][NextBudget]_vars

(* One VAE object called in every way: a one-batch training run of either kind,
   and generate, loss, reconstruct, save, load and get_privacy_spent around it. *)
InitCalls == Constructed(TrainLayouts, {1}, {1}, {0}, 1)

\* the batch the idle calls are given
TheBatch == TrainBatch(num_categories, num_continuous, 0)

NextCalls ==
    \/ TrainCall(1, 1, 1, 1)
    \/ \E c \in ClipBounds, te \in TargetEps, td \in TargetDeltas, sr \in SampleRates :
          DiffPrivTrainCall(1, 1, 1, 1, None, c, te, td, sr)
    \/ Construct(FALSE)
    \/ Attach
    \/ LoopStep
    \/ \E d \in Deltas : GetPrivacySpent(1, d)
    \/ GenerateCall(1, 1, TRUE)
    \/ LossCall(1, TheBatch)
    \/ ReconstructCall(1, TheBatch)
    \/ \E f \in Paths : Save(1, f)
    \/ \E f \in Paths : Load(1, f)

SpecCalls == InitCalls /\ [][NextCalls]_vars

(* One VAE object with fixed weights: reconstruct, and the calls that draw from
   the random generator, in any order and from any seed. *)
InitRecon == Constructed(TrainLayouts, {1}, {1}, 0..(RngMod - 1), 0)

NextRecon ==
    \/ \E X \in CallBatches : ReconstructCall(1, X)
    \/ LossCall(1, TheBatch)
    \/ GenerateCall(1, 1, TRUE)

SpecRecon == InitRecon /\ [][NextRecon]_vars

(* Two VAE objects of one shape: the first is trained, either saves, either loads. *)
InitPersist == Constructed(TrainLayouts, {1, 2}, 1..MaxFiles, {0}, MaxCalls)

NextPersist ==
    \/ TrainCall(1, 1, 1, 1)
    \/ LoopStep
    \/ \E self \in Insts, f \in Paths : Save(self, f)
    \/ \E self \in Insts, f \in Paths : Load(self, f)

SpecPersist == InitPersist /\ [][NextPersist]_vars

(* generate on a freshly constructed VAE of any layout. *)
InitGenerate == Constructed(Layouts, {1}, {1}, 0..(RngMod - 1), 0)

NextGenerate == \E N \in 1..MaxN, ok \in BOOLEAN : GenerateCall(1, N, ok)

SpecGenerate == InitGenerate /\ [][NextGenerate]_vars

(* loss on a freshly constructed VAE of any layout, for any batch of its rows. *)
InitLoss == Constructed(Layouts, {1}, {1}, 0..(RngMod - 1), 0)

NextLoss ==
    \E X \in BatchesFor(num_categories, num_continuous, MaxBatch) : LossCall(1, X)

SpecLoss == InitLoss /\ [][NextLoss]_vars

----------------------------------------------------------------------------
(* Properties of generate *)

IsOneHot(x) == \E k \in DOMAIN x : x = OneHot(Len(x), k)

PositiveWidths == \A v \in DOMAIN num_categories : num_categories[v] >= 1

\* C1: for every layout and every N >= 1 generate(N) returns exactly N rows of
\* width sum(category widths) + continuous count, each categorical group's slice
\* at its offset is a one-hot vector, and the continuous block has the declared
\* width.  Stated here for the layouts whose groups all have at least one
\* category, so that the library's treatment of an empty group plays no part.
C1_GenerateShape ==
    (ret.op = "generate" /\ PositiveWidths) =>
        /\ ret.status = "ok"
        /\ Len(ret.value) = ret.N
        /\ \A i \in DOMAIN ret.value :
              /\ Len(ret.value[i]) = Width(num_categories, num_continuous)
              /\ \A v \in DOMAIN num_categories :
                    IsOneHot(SubSeq(ret.value[i], Offset(num_categories, v) + 1,
                                    Offset(num_categories, v) + num_categories[v]))
              /\ Len(ret.value[i]) - SumSeq(num_categories) = num_continuous

\* generate raised on a layout with categorical groups and no continuous feature
C1_RaisedWithoutContinuous ==
    /\ ret.op = "generate"
    /\ ret.status = "raise"
    /\ PositiveWidths
    /\ num_categories /= << >>
    /\ num_continuous = 0

----------------------------------------------------------------------------
(* Properties of loss *)

\* the categorical term as a batch total: minus the cross-entropy of every row
\* and every group, added up (nothing to add when no group has a category)
BatchTotalCrossEntropy(p, X, r) ==
    IF SumSeq(num_categories) = 0 THEN 0
    ELSE SumSeq([v \in 1..Len(num_categories) |->
                    GroupCrossEntropySum(p, X, r, num_categories, num_continuous, v)])

\* C9: loss(X) is an un-normalized batch total: the categorical term is the sum
\* over the rows and the groups of the row's negative cross-entropy (summed over
\* the batch, not averaged), the continuous term is the summed Gaussian
\* log-density, and the result is the KL total minus the two terms.
C9_LossIsBatchTotal ==
    (ret.op = "loss" /\ ret.status = "ok") =>
        /\ RatEq(ret.categoric_loglik, Rat(0 - BatchTotalCrossEntropy(ret.p, ret.X, ret.r)))
        /\ ret.gauss_loglik = GaussLoglik(ret.p, ret.X, ret.r, num_categories, num_continuous)
        /\ RatEq(ret.value,
                 Rat(EncoderLoss(ret.p, ret.X)
                     + BatchTotalCrossEntropy(ret.p, ret.X, ret.r)
                     - ret.gauss_loglik))

\* loss returned for a batch of several rows a categorical term that is not the
\* batch total
C9_AveragedOverBatch ==
    /\ ret.op = "loss"
    /\ ret.status = "ok"
    /\ Len(ret.X) > 1
    /\ ~RatEq(ret.categoric_loglik, Rat(0 - BatchTotalCrossEntropy(ret.p, ret.X, ret.r)))
    /\ RatEq(ret.categoric_loglik,
             << 0 - BatchTotalCrossEntropy(ret.p, ret.X, ret.r), Len(ret.X) >>)

----------------------------------------------------------------------------
(* Properties of the Noiser under training *)

\* the inputs the Noiser is probed with
NoiserInputs == {q \in SeqsUpTo(ContVals \cup {-1}, MaxCont) : Len(q) = MaxCont}

NoTrainingYet == ret = NoRet /\ pc = "idle"

----------------------------------------------------------------------------
(* Properties of the training loops *)

RECURSIVE Repeat(_, _)
Repeat(s, n) == IF n = 0 THEN << >> ELSE s \o Repeat(s, n - 1)

BatchEvents == << "zero_grad", "loss", "backward", "step", "accumulate" >>

\* the events of epochs e, e + 1, ..., n_epochs - 1
RECURSIVE EpochEvents(_, _, _, _)
EpochEvents(e, n_epochs, nbatches, logging_freq) ==
    IF e >= n_epochs THEN << >>
    ELSE << "epoch" >> \o Repeat(BatchEvents, nbatches)
         \o (IF e % logging_freq = 0 THEN << "print" >> ELSE << >>)
         \o EpochEvents(e + 1, n_epochs, nbatches, logging_freq)

\* the events of a whole call: the same for train and diff_priv_train
ExpectedTrace(n_epochs, nbatches, logging_freq) ==
    EpochEvents(0, n_epochs, nbatches, logging_freq)

IsPrefix(s, t) == Len(s) <= Len(t) /\ s = SubSeq(t, 1, Len(s))

InLoop == pc \in {"epoch", "zero_grad", "loss", "backward", "step", "accumulate",
                  "epoch_end"}

LoopDone == pc = "epoch" /\ call.op /= "none" /\ epoch >= call.n_epochs

\* C8: in train and in diff_priv_train alike, every batch of every epoch goes
\* through zero-gradients, loss, backpropagation, one optimizer step, add to the
\* epoch total, in that order; a loop that runs to its end has taken exactly
\* n_epochs x batches optimizer steps; the epoch total is zero when an epoch's
\* first batch starts and is that batch's loss after it.
C8_LoopSequence ==
    InLoop =>
        /\ IsPrefix(trace, ExpectedTrace(call.n_epochs, call.nbatches, call.logging_freq))
        /\ optSteps = Cardinality({k \in DOMAIN trace : trace[k] = "step"})
        /\ LoopDone =>
              /\ trace = ExpectedTrace(call.n_epochs, call.nbatches, call.logging_freq)
              /\ optSteps = call.n_epochs * call.nbatches
        /\ (pc = "zero_grad" /\ batch_idx = 0) => train_loss = Rat(0)
        /\ (batch_idx = 1 /\ pc \in {"zero_grad", "epoch_end"}) => RatEq(train_loss, loss)

\* a privacy-budgeted run of the most epochs and batches has come to its end
C8_DpLoopDone ==
    /\ LoopDone
    /\ call.op = "diff_priv_train"
    /\ call.n_epochs = MaxEpochs
    /\ call.nbatches = MaxBatches
    /\ optSteps = MaxEpochs * MaxBatches

----------------------------------------------------------------------------
(* Properties of the accountant's configuration *)

FixedNoiseKeys == {"sample_rate", "alphas", "noise_multiplier", "max_grad_norm"}
TargetKeys == {"sample_rate", "alphas", "target_epsilon", "target_delta", "epochs",
               "max_grad_norm"}

\* C10: the accountant is configured in one of two exclusive modes chosen by
\* whether noise_scale is None: given (0 included), it gets the noise multiplier
\* and the clip bound and no target; None, it gets target_eps, target_delta, the
\* clip bound and epochs = n_epochs and no noise multiplier; both get sample_rate
\* and the accounting orders; and it is attached before the first batch.
C10_EngineConfiguration ==
    (call.op = "diff_priv_train" /\ pc /= "construct") =>
        LET cfg == engines[privacy_engine[call.self]].cfg
        IN  /\ privacy_engine[call.self] = Len(engines)
            /\ IF call.noise_scale /= None
               THEN /\ DOMAIN cfg = FixedNoiseKeys
                    /\ cfg.noise_multiplier = call.noise_scale
               ELSE /\ DOMAIN cfg = TargetKeys
                    /\ cfg.target_epsilon = call.target_eps
                    /\ cfg.target_delta = call.target_delta
                    /\ cfg.epochs = call.n_epochs
            /\ cfg.max_grad_norm = call.C
            /\ cfg.sample_rate = call.sample_rate
            /\ cfg.alphas = Alphas
            /\ InLoop => optEngine[call.self] = privacy_engine[call.self]

\* a run given noise_scale = 0 stands before its first batch
C10_ZeroNoiseAttached ==
    /\ call.op = "diff_priv_train"
    /\ call.noise_scale = 0
    /\ pc = "zero_grad"
    /\ optSteps = 0
    /\ optEngine[call.self] = privacy_engine[call.self]

----------------------------------------------------------------------------
(* Properties of the privacy accountant over several runs *)

\* every diff_priv_train call so far was given the same accountant configuration
SameConfiguration == \A i, j \in DOMAIN engines : engines[i].cfg = engines[j].cfg

\* C3: over runs of diff_priv_train with one configuration on one instance,
\* interleaved with get_privacy_spent at a fixed delta, a query never returns
\* less than an earlier query returned.
C3_EpsilonNeverDecreases ==
    (/\ ret.op = "get_privacy_spent"
     /\ SameConfiguration
     /\ ret.value /= None
     /\ ret.before /= None) => ret.value >= ret.before

\* a query after a second run of the same configuration returned less than the
\* query before it
C3_EpsilonDropped ==
    /\ ret.op = "get_privacy_spent"
    /\ SameConfiguration
    /\ Len(engines) = 2
    /\ ret.before /= None
    /\ ret.value /= None
    /\ ret.value < ret.before

\* C4: at most one privacy accountant is ever constructed for a VAE; once
\* attached it stays the one the instance holds and the optimizer is hooked to; a
\* later diff_priv_train call constructs no second accountant and replaces nothing.
C4_SingleAccountant ==
    /\ Len(engines) <= 1
    /\ \A i \in Insts :
          optEngine[i] /= 0 => privacy_engine[i] = optEngine[i]

\* a second accountant was constructed and bound to the instance while the
\* optimizer is still hooked to the first
C4_SecondAccountant ==
    /\ pc = "idle"
    /\ Len(engines) = 2
    /\ privacy_engine[1] = 2
    /\ optEngine[1] = 1

----------------------------------------------------------------------------
(* Properties of get_privacy_spent *)

\* C5: get_privacy_spent never raises; on an instance on which no
\* diff_priv_train call has constructed an accountant it prints the message,
\* returns no number and changes nothing; once one has, it returns a number, the
\* epsilon of the accountant the instance holds in self.privacy_engine.
C5_PrivacySpentQuery ==
    ret.op = "get_privacy_spent" =>
        /\ ret.status = "ok"
        /\ params = ret.p /\ rng = ret.r /\ engines = ret.e /\ optEngine = ret.hooked
        /\ IF engines = << >>
           THEN /\ ret.value = None
                /\ ret.printed
                /\ spent = ret.before
           ELSE /\ ~ret.printed
                /\ ret.value /= None
                /\ ret.value = Epsilon(engines[privacy_engine[ret.self]], ret.delta)
                /\ spent = ret.value

\* the query was made with no accountant on an instance that had been trained,
\* had saved and had reconstructed
C5_QueriedWithoutAccountant ==
    /\ ret.op = "get_privacy_spent"
    /\ engines = << >>
    /\ calls = 0
    /\ recon.set
    /\ files[1] /= NoFile
    /\ ret.value = None

----------------------------------------------------------------------------
(* Properties of reconstruct *)

\* C6: reconstruct decodes the posterior mean, draws nothing from the random
\* generator and writes no parameter; two calls with the same X and the same
\* weights return the same output, whatever the generator's state and whatever
\* loss, generate or reconstruct calls came in between.
C6_ReconstructDeterministic ==
    ret.op = "reconstruct" =>
        /\ params = ret.p
        /\ rng = ret.r
        /\ ret.value = [i \in 1..Len(ret.X) |->
              DecoderForward(params[ret.self].dec,
                             EncoderForward(params[ret.self].enc, ret.X[i]).mu_z,
                             num_categories, num_continuous)]
        /\ (ret.before.set /\ ret.before.X = ret.X /\ ret.before.p = params[ret.self])
              => ret.value = ret.before.value

\* the same X was reconstructed twice with the random generator in another state
C6_ReconstructedTwice ==
    /\ ret.op = "reconstruct"
    /\ ret.before.set
    /\ ret.before.X = ret.X
    /\ ret.before.p = params[ret.self]
    /\ ret.before.r /= ret.r
    /\ num_continuous > 0

----------------------------------------------------------------------------
(* Properties of save and load *)

\* loss(X) of the two parameter sets at one state of the random generator
SameLoss(p, q, X, r) ==
    Loss(p, X, r, num_categories, num_continuous)
        = Loss(q, X, r, num_categories, num_continuous)

\* C7: save leaves the saving model's parameters as they were; after load of a
\* saved path every Encoder, Decoder and Noiser parameter of the loading model
\* equals the saving model's at the time it saved, and loss(X) at one
\* reparameterization noise is the same on both.
C7_SaveLoadRoundTrip ==
    /\ ret.op = "save" =>
          /\ params = ret.p
          /\ saved[ret.filename] = params[ret.self]
    /\ (ret.op = "load" /\ ret.status = "ok") =>
          /\ params[ret.self] = saved[ret.filename]
          /\ \A r \in 0..(RngMod - 1) :
                SameLoss(params[ret.self], saved[ret.filename], TheBatch, r)

\* the second model has loaded what the first saved after training moved its
\* Noiser bias
C7_LoadedTrained ==
    /\ ret.op = "load"
    /\ ret.status = "ok"
    /\ ret.self = 2
    /\ params[2].nb /= 0
    /\ params[2] = saved[ret.filename]

====
